---- MODULE Spec2Model ----
(***************************************************************************)
(* A model of general.py of GASP-python: the Pool (promotion set + queue), *)
(* its fitness / selection-probability computation, select_organisms, and  *)
(* the StoppingCriteria.                                                   *)
(*                                                                         *)
(* Numbers.  Objective values are integers.  In a phase-diagram search the *)
(* value of an organism is its height above the lower convex hull of the   *)
(* organisms it was computed with, over a binary composition space with    *)
(* endpoints "A" and "B" and the midpoint "AB"; one value unit is half an  *)
(* energy unit so that midpoint hull heights stay integral.  Fitnesses,    *)
(* selection probabilities and interval locations are exact rationals      *)
(* <<numerator, denominator>> in lowest terms; <<0, 0>> stands for None.   *)
(***************************************************************************)
EXTENDS Integers, Sequences, FiniteSets, TLC

\* ------------------------------------------------------------- bounds
\* how many organisms the id generator hands out in a run
MaxOrg == 4
\* energies per atom of a phase-diagram search range over 0..MaxEnergy
MaxEnergy == 1
\* energies per atom of a fixed-composition search range over 0..MaxEpa
MaxEpa == 2
\* how many organisms a run that exercises selection makes
MaxSelOrg == 3
\* select_organisms is called with n in 0..MaxSelect
MaxSelect == 2
\* Pool.size of the modelled runs
PoolSize == 3
\* update_calc_counter is called at most MaxCalls times in a run
MaxCalls == 801
\* ... and at most MaxOverrun times beyond the configured maximum
MaxOverrun == 2
\* the num_energy_calcs a user gives range over 0..MaxGivenCalcs
MaxGivenCalcs == 3
\* make_offspring_organism gets at most MaxVariations variations
MaxVariations == 2
\* ... whose fractions are multiples of 1/FracUnit
FracUnit == 2

\* ---------------------------------------------------- program constants
\* 0.000000001, the hull tolerance, in value units
Eps == 2
\* Organism.value before it is assigned (None)
NoValue == -1

VARIABLES
    endpoints,            \* composition_space.endpoints
    objective_function,   \* composition_space.objective_function
    num_promoted,         \* Pool.num_promoted
    size,                 \* Pool.size
    num_parents,          \* Pool.selection.num_parents
    power,                \* Pool.selection.power
    selection_params,     \* the argument of SelectionProbDist.__init__
    id,                   \* IDGenerator.id
    org_budget,           \* how many organisms the driver makes in this run
    org,                  \* the Organism objects, by id
    initial_population,   \* InitialPopulation.initial_population
    promotion_set,        \* Pool.promotion_set
    queue,                \* Pool.queue (index 1 is the left end)
    num_adds,             \* Pool.num_adds
    pc,                   \* the operation the driver completed last
    sel_n,                \* select_organisms: n
    selected_orgs,        \* select_organisms: selected_orgs
    twin_sel,             \* a second run of the select_organisms call in
                          \* progress: same pool, same n, same draws
    stopping_parameters,  \* the argument of StoppingCriteria.__init__
    sc_pc,                \* "none", "constructed" or "crashed"
    num_energy_calcs,     \* StoppingCriteria.num_energy_calcs
    value_achieved,       \* StoppingCriteria.value_achieved
    found_structure,      \* StoppingCriteria.found_structure
    are_satisfied,        \* StoppingCriteria.are_satisfied
    calc_counter,         \* StoppingCriteria.calc_counter
    calls,                \* how often the driver has called update_calc_counter
    variations,           \* make_offspring_organism: the fractions of variations
    tried_variations,     \* make_offspring_organism: tried_variations (indices)
    variation,            \* make_offspring_organism: variation (index)
    num_tries,            \* make_offspring_organism: num_tries
    off_pc,               \* where make_offspring_organism stands
    developed,            \* the last developer.develop returned an organism
    guard_consulted,      \* check_redundancy was called in the last attempt
    redundant,            \* ... and returned an organism
    twin_off              \* a second run of the make_offspring_organism call
                          \* in progress: same variations, same draws, same
                          \* answers of the developer and the redundancy guard

scvars == <<stopping_parameters, sc_pc, num_energy_calcs, value_achieved,
            found_structure, are_satisfied, calc_counter, calls>>

poolvars == <<id, org, initial_population, promotion_set, queue, num_adds, pc,
              sel_n, selected_orgs, twin_sel>>

offvars == <<variations, tried_variations, variation, num_tries, off_pc, developed,
             guard_consulted, redundant, twin_off>>

\* what no operation of the pool writes
cfgvars == <<endpoints, objective_function, num_promoted, size, num_parents, power,
             selection_params, org_budget, scvars, offvars>>

vars == <<cfgvars, poolvars>>

\* ------------------------------------------------------------ rationals
RECURSIVE GCD(_, _)
GCD(a, b) == IF b = 0 THEN a ELSE GCD(b, a % b)

Abs(x) == IF x < 0 THEN -x ELSE x

\* n/d in lowest terms with a positive denominator (d # 0)
Rat(n, d) ==
    LET g == GCD(Abs(n), Abs(d))
        s == IF d < 0 THEN -1 ELSE 1
    IN <<(s * n) \div g, (s * d) \div g>>

NoneR == <<0, 0>>
Zero == <<0, 1>>
One == <<1, 1>>

IsNone(r) == r[2] = 0
RAdd(a, b) == Rat(a[1] * b[2] + b[1] * a[2], a[2] * b[2])
RDiv(a, b) == Rat(a[1] * b[2], a[2] * b[1])
RLess(a, b) == a[1] * b[2] < b[1] * a[2]
RLeq(a, b) == a[1] * b[2] <= b[1] * a[2]

RECURSIVE IntPow(_, _)
IntPow(b, e) == IF e = 0 THEN 1 ELSE b * IntPow(b, e - 1)

\* math.pow(x, p) for a rational x >= 0 and an integer p >= 0; pow(0, 0) = 1
RPow(r, p) == Rat(IntPow(r[1], p), IntPow(r[2], p))

LCM(a, b) == (a * b) \div GCD(a, b)

\* ------------------------------------------------------------ sequences
Range(s) == {s[i] : i \in 1..Len(s)}

RECURSIVE Reverse(_)
Reverse(s) == IF s = <<>> THEN <<>> ELSE Reverse(Tail(s)) \o <<Head(s)>>

\* list.remove(x): drops the first occurrence of x
RECURSIVE Remove(_, _)
Remove(s, x) ==
    IF s = <<>> THEN <<>>
    ELSE IF Head(s) = x THEN Tail(s)
    ELSE <<Head(s)>> \o Remove(Tail(s), x)

\* list.index(x)
IndexOf(s, x) == CHOOSE i \in 1..Len(s) : s[i] = x /\ \A j \in 1..(i - 1) : s[j] # x

\* s[start:] as Python slices it: a negative start counts from the end
PySliceFrom(s, start) ==
    LET len == Len(s)
        st0 == IF start < 0 THEN start + len ELSE start
        st == IF st0 < 0 THEN 0 ELSE IF st0 > len THEN len ELSE st0
    IN SubSeq(s, st + 1, len)

\* x put behind every element of the sorted list t that does not come after it
RECURSIVE InsertStable(_, _, _)
InsertStable(t, x, lt) ==
    IF t = <<>> THEN <<x>>
    ELSE IF lt[x][t[Len(t)]] THEN InsertStable(SubSeq(t, 1, Len(t) - 1), x, lt) \o <<t[Len(t)]>>
    ELSE t \o <<x>>

\* list.sort: stable; lt[a][b] says that a sorts strictly before b
RECURSIVE StableSort(_, _)
StableSort(s, lt) ==
    IF s = <<>> THEN <<>>
    ELSE InsertStable(StableSort(SubSeq(s, 1, Len(s) - 1), lt), s[Len(s)], lt)

Ids == 1..MaxOrg

\* sort(key=lambda x: x.value, reverse=False)
SortByValueAsc(o, s) ==
    StableSort(s, [a \in Ids |-> [b \in Ids |-> o[a].value < o[b].value]])
\* sort(key=lambda x: x.value, reverse=True)
SortByValueDesc(o, s) ==
    StableSort(s, [a \in Ids |-> [b \in Ids |-> o[a].value > o[b].value]])
\* sort(key=lambda x: x.fitness, reverse=False)
SortByFitnessAsc(o, s) ==
    StableSort(s, [a \in Ids |-> [b \in Ids |-> RLess(o[a].fitness, o[b].fitness)]])
\* sort(key=lambda x: x.fitness, reverse=True)
SortByFitnessDesc(o, s) ==
    StableSort(s, [a \in Ids |-> [b \in Ids |-> RLess(o[b].fitness, o[a].fitness)]])

\* ------------------------------------------------------------ organisms
Compositions == {"A", "AB", "B"}
Energies == 0..MaxEnergy
Epas == 0..MaxEpa
AllEnergies == Energies \cup Epas

\* Organism.__init__: every scoring field unset, not active
NewOrganism(c, e) ==
    [composition |-> c, epa |-> e, value |-> NoValue, fitness |-> NoneR,
     selection_prob |-> NoneR, selection_loc |-> NoneR, is_active |-> FALSE]

\* the slot of an id the generator has not handed out yet
Unmade == NewOrganism("A", 0)

\* Pool.to_list
to_list(ps, q) == ps \o q

\* ------------------------------------------------- the phase diagram
Has(o, list, c) == \E i \in Range(list) : o[i].composition = c

\* the lowest energy among the organisms of the list with composition c
MinEnergy(o, list, c) ==
    CHOOSE e \in Energies :
        /\ \E i \in Range(list) : o[i].composition = c /\ o[i].epa = e
        /\ \A i \in Range(list) : o[i].composition = c => e <= o[i].epa

\* CompoundPhaseDiagram(...) raises unless every endpoint has an entry
HullConstructible(o, list) == Has(o, list, "A") /\ Has(o, list, "B")

Min2(a, b) == IF a <= b THEN a ELSE b

\* twice the energy of the lower convex hull at composition c
HullTwice(o, list, c) ==
    LET ea == MinEnergy(o, list, "A")
        eb == MinEnergy(o, list, "B")
    IN CASE c = "A" -> 2 * ea
         [] c = "B" -> 2 * eb
         [] OTHER -> IF Has(o, list, "AB")
                     THEN Min2(2 * MinEnergy(o, list, "AB"), ea + eb)
                     ELSE ea + eb

\* pd_analyzer.get_e_above_hull of one entry, in value units
get_e_above_hull(o, list, i) == 2 * o[i].epa - HullTwice(o, list, o[i].composition)

\* Pool.compute_pd_values: the organisms of the list get their hull distances
compute_pd_values(o, list) ==
    [i \in Ids |-> IF i \in Range(list)
                   THEN [o[i] EXCEPT !.value = get_e_above_hull(o, list, i)]
                   ELSE o[i]]

\* --------------------------------------------- promotion set and queue
\* the result of indexing an empty list: IndexError, no organism is returned
IndexError == 0

\* get_best_in_pool: the first organism of least value in the promotion set
get_best_in_pool(o, ps) ==
    IF ps = <<>> THEN IndexError
    ELSE ps[CHOOSE k \in 1..Len(ps) :
              /\ \A j \in 1..Len(ps) : o[ps[k]].value <= o[ps[j]].value
              /\ \A j \in 1..(k - 1) : o[ps[k]].value < o[ps[j]].value]

\* get_worst_in_pool: the first organism of greatest value in the queue
get_worst_in_pool(o, q) ==
    IF q = <<>> THEN IndexError
    ELSE q[CHOOSE k \in 1..Len(q) :
              /\ \A j \in 1..Len(q) : o[q[j]].value <= o[q[k]].value
              /\ \A j \in 1..(k - 1) : o[q[j]].value < o[q[k]].value]

\* Pool.get_worst_in_promotion_set (the promotion set is not empty)
get_worst_in_promotion_set(o, ps) ==
    ps[CHOOSE k \in 1..Len(ps) :
          /\ \A j \in 1..Len(ps) : o[ps[j]].value <= o[ps[k]].value
          /\ \A j \in 1..(k - 1) : o[ps[j]].value < o[ps[k]].value]

\* the test of check_promotion_set_pd for leaving the promotion set
NoLongerOnHull(v) == v > 0
\* the test of check_promotion_set_pd and add_initial_population for being on the hull
OnHull(v) == v < Eps
\* the test of add_organism for the newcomer being on the hull
NewcomerOnHull(v) == v = 0

\* check_promotion_set_pd that removes the demoted organisms from the
\* promotion set without putting them in the queue
check_promotion_set_pd_drops(o, ps, q) ==
    LET Demoted(i) == NoLongerOnHull(o[i].value)
        Kept(i) == ~Demoted(i)
        Promoted(i) == OnHull(o[i].value)
        Stays(i) == ~Promoted(i)
    IN <<SelectSeq(ps, Kept) \o SelectSeq(q, Promoted), SelectSeq(q, Stays)>>

\* check_promotion_set_pd that leaves the promoted organisms in the queue
check_promotion_set_pd_keeps(o, ps, q) ==
    LET Demoted(i) == NoLongerOnHull(o[i].value)
        Kept(i) == ~Demoted(i)
        q1 == Reverse(SelectSeq(ps, Demoted)) \o q
        Promoted(i) == OnHull(o[i].value)
    IN <<SelectSeq(ps, Kept) \o SelectSeq(q1, Promoted), q1>>

\* Pool.check_promotion_set_pd: <<promotion set, queue>> afterwards
check_promotion_set_pd(o, ps, q) ==
    LET Demoted(i) == NoLongerOnHull(o[i].value)
        Kept(i) == ~Demoted(i)
        organisms_to_demote == SelectSeq(ps, Demoted)
        ps1 == SelectSeq(ps, Kept)
        q1 == Reverse(organisms_to_demote) \o q
        Promoted(i) == OnHull(o[i].value)
        Stays(i) == ~Promoted(i)
        organisms_to_promote == SelectSeq(q1, Promoted)
        q2 == SelectSeq(q1, Stays)
        ps2 == ps1 \o organisms_to_promote
    IN <<ps2, q2>>

\* ------------------------------------------------------------- fitness
\* Pool.get_n_best_organisms
get_n_best_organisms(o, ps, q, n) ==
    LET pool_list == SortByValueDesc(o, to_list(ps, q))
    IN PySliceFrom(pool_list, Len(pool_list) - n)

\* the whole pool taken as the reference subset
best_organisms_all(o, ps, q) == SortByValueDesc(o, to_list(ps, q))

\* the reference subset of compute_fitnesses
best_organisms(o, ps, q) ==
    IF num_parents < size
    THEN get_n_best_organisms(o, ps, q, num_parents + 1)
    ELSE get_n_best_organisms(o, ps, q, size)

\* compute_fitnesses raises: IndexError on an empty subset, ZeroDivisionError
\* when the best and the worst value of the subset coincide
FitnessFaults(o, ps, q) ==
    LET best == best_organisms(o, ps, q)
    IN \/ best = <<>>
       \/ o[best[Len(best)]].value = o[best[1]].value

\* the loops of compute_fitnesses with the best and the worst value exchanged
AssignFitnessesSwapped(o, best, pool_list) ==
    LET best_value == o[best[1]].value
        worst_value == o[best[Len(best)]].value
    IN [i \in Ids |->
          IF i \in Range(best)
          THEN [o[i] EXCEPT !.fitness =
                   Rat(o[i].value - worst_value, best_value - worst_value)]
          ELSE IF i \in Range(pool_list)
          THEN [o[i] EXCEPT !.fitness = Zero]
          ELSE o[i]]

\* the two loops of compute_fitnesses over the subset best and the pool
AssignFitnesses(o, best, pool_list) ==
    LET best_value == o[best[Len(best)]].value
        worst_value == o[best[1]].value
    IN [i \in Ids |->
          IF i \in Range(best)
          THEN [o[i] EXCEPT !.fitness =
                   Rat(o[i].value - worst_value, best_value - worst_value)]
          ELSE IF i \in Range(pool_list)
          THEN [o[i] EXCEPT !.fitness = Zero]
          ELSE o[i]]

\* Pool.compute_fitnesses when it does not raise
compute_fitnesses(o, ps, q) ==
    AssignFitnesses(o, best_organisms(o, ps, q), to_list(ps, q))

\* ------------------------------------------- selection probabilities
RECURSIVE SumPow(_, _, _)
SumPow(o, list, p) ==
    IF list = <<>> THEN Zero
    ELSE RAdd(RPow(o[Head(list)].fitness, p), SumPow(o, Tail(list), p))

\* the denominator of compute_selection_probs
Denom(o, ps, q) == SumPow(o, to_list(ps, q), power)

\* compute_selection_probs raises ZeroDivisionError
ProbsFaults(o, ps, q) == to_list(ps, q) # <<>> /\ Denom(o, ps, q) = Zero

\* the loop of compute_selection_probs over the sorted organisms
RECURSIVE AssignProbs(_, _, _, _)
AssignProbs(o, organisms, denom, selection_loc) ==
    IF organisms = <<>> THEN o
    ELSE LET i == Head(organisms)
             prob == RDiv(RPow(o[i].fitness, power), denom)
             o1 == [o EXCEPT ![i].selection_prob = prob,
                             ![i].selection_loc = selection_loc]
         IN AssignProbs(o1, Tail(organisms), denom, RAdd(selection_loc, prob))

\* compute_selection_probs without the sort by fitness
compute_selection_probs_unsorted(o, ps, q) ==
    AssignProbs(o, to_list(ps, q), Denom(o, ps, q), Zero)

\* Pool.compute_selection_probs when it does not raise
compute_selection_probs(o, ps, q) ==
    AssignProbs(o, SortByFitnessAsc(o, to_list(ps, q)), Denom(o, ps, q), Zero)

\* ---------------------------------------------------------- selection
\* rand >= selection_loc and rand < selection_loc + selection_prob
InInterval(rand, r) ==
    /\ RLeq(r.selection_loc, rand)
    /\ RLess(rand, RAdd(r.selection_loc, r.selection_prob))

\* the for loop of select_organisms without the test for an organism that
\* was selected before
RECURSIVE ScanAgain(_, _, _, _, _)
ScanAgain(o, pool_list, rand, sel, n) ==
    IF pool_list = <<>> THEN <<sel, FALSE>>
    ELSE LET i == Head(pool_list)
         IN IF InInterval(rand, o[i])
            THEN IF Len(sel) + 1 = n
                 THEN <<Append(sel, i), TRUE>>
                 ELSE ScanAgain(o, Tail(pool_list), rand, Append(sel, i), n)
            ELSE ScanAgain(o, Tail(pool_list), rand, sel, n)

\* the for loop of select_organisms for one draw:
\* <<selected_orgs afterwards, whether the method returned>>
RECURSIVE Scan(_, _, _, _, _)
Scan(o, pool_list, rand, sel, n) ==
    IF pool_list = <<>> THEN <<sel, FALSE>>
    ELSE LET i == Head(pool_list)
         IN IF InInterval(rand, o[i]) /\ i \notin Range(sel)
            THEN IF Len(sel) + 1 = n
                 THEN <<Append(sel, i), TRUE>>
                 ELSE Scan(o, Tail(pool_list), rand, Append(sel, i), n)
            ELSE Scan(o, Tail(pool_list), rand, sel, n)

RECURSIVE LcmDen(_, _)
LcmDen(o, list) ==
    IF list = <<>> THEN 1
    ELSE LCM(LCM(o[Head(list)].selection_loc[2], o[Head(list)].selection_prob[2]),
             LcmDen(o, Tail(list)))

\* random.random(): one point of every cell of [0, 1) that the interval ends
\* of the pool's organisms cut out
Draws(o, list) == {Rat(k, LcmDen(o, list)) : k \in 0..(LcmDen(o, list) - 1)}

\* --------------------------------------------------- CompositionSpace
\* the endpoints of the modelled composition spaces: up to MaxEndpoints of
\* the two reduced compositions "A" and "B"
MaxEndpoints == 4
EndpointChoices ==
    UNION {[1..n -> {"A", "B"}] : n \in 1..MaxEndpoints}

\* infer_objective_function that compares the first two endpoints only
infer_objective_function_first_two(points) ==
    IF Len(points) = 1
    THEN "epa"
    ELSE IF points[1] # points[2]
         THEN "pd"
         ELSE "epa"

\* CompositionSpace.infer_objective_function
infer_objective_function(points) ==
    IF Len(points) = 1
    THEN "epa"
    ELSE IF \E point \in 1..Len(points), next_point \in 1..Len(points) :
               points[point] # points[next_point]
         THEN "pd"
         ELSE "epa"

\* --------------------------------------------------- StoppingCriteria
\* an attribute that holds None, holds a value, or was never assigned
None == [k |-> "none", v |-> 0]
Some(x) == [k |-> "some", v |-> x]
Missing == [k |-> "missing", v |-> 0]

\* a key of the stopping_parameters dictionary: absent, None, 'default' or given
Absent == [k |-> "absent", v |-> 0]
KeyNone == [k |-> "None", v |-> 0]
KeyDefault == [k |-> "default", v |-> 0]
Given(x) == [k |-> "given", v |-> x]
Blank(key) == key.k \in {"None", "default"}

\* the values a user gives for the three criteria
GivenValues == {Given(1)}
GivenStructures == {Given(1)}
GivenCalcs == {Given(n) : n \in 0..MaxGivenCalcs}

NoParameters ==
    [whole |-> "unset", value_achieved |-> Absent, found_structure |-> Absent,
     num_energy_calcs |-> Absent]
StoppingParameters ==
    {[NoParameters EXCEPT !.whole = w] : w \in {"None", "default"}}
    \cup [whole : {"dict"},
          value_achieved : {Absent, KeyNone, KeyDefault} \cup GivenValues,
          found_structure : {Absent, KeyNone, KeyDefault} \cup GivenStructures,
          num_energy_calcs : {Absent, KeyNone, KeyDefault} \cup GivenCalcs]

\* StoppingCriteria.default_num_energy_calcs
default_num_energy_calcs ==
    CASE Len(endpoints) = 1 -> Some(800)
      [] Len(endpoints) = 2 -> Some(1000)
      [] Len(endpoints) = 3 -> Some(3000)
      [] Len(endpoints) = 4 -> Some(6000)
      [] OTHER -> Missing

\* value_achieved as StoppingCriteria.__init__ resolves it
ResolveValueAchieved(p) ==
    IF p.whole # "dict" THEN None
    ELSE IF p.value_achieved.k = "absent" THEN None
    ELSE IF Blank(p.value_achieved) THEN None
    ELSE IF objective_function = "epa" THEN Some(p.value_achieved.v)
    ELSE Missing

\* found_structure as StoppingCriteria.__init__ resolves it
ResolveFoundStructure(p) ==
    IF p.whole # "dict" THEN None
    ELSE IF p.found_structure.k = "absent" THEN None
    ELSE IF Blank(p.found_structure) THEN None
    ELSE Some(p.found_structure.v)

\* num_energy_calcs resolved with a blank num_energy_calcs key read as no
\* count criterion
ResolveNumEnergyCalcsBlank(p, va, fs) ==
    IF p.whole # "dict" THEN default_num_energy_calcs
    ELSE IF p.num_energy_calcs.k = "given" THEN Some(p.num_energy_calcs.v)
    ELSE IF va = Missing THEN Missing
    ELSE IF va = None /\ fs = None /\ p.num_energy_calcs.k = "absent"
         THEN default_num_energy_calcs
    ELSE None

\* num_energy_calcs as StoppingCriteria.__init__ resolves it; Missing when
\* the constructor reads an attribute that was never assigned
ResolveNumEnergyCalcs(p, va, fs) ==
    IF p.whole # "dict" THEN default_num_energy_calcs
    ELSE IF p.num_energy_calcs.k = "given" THEN Some(p.num_energy_calcs.v)
    ELSE IF va = Missing THEN Missing
    ELSE IF va = None /\ fs = None THEN default_num_energy_calcs
    ELSE None

\* StoppingCriteria.__init__
Construct(p) ==
    /\ sc_pc = "none"
    /\ stopping_parameters' = p
    /\ are_satisfied' = FALSE
    /\ calc_counter' = 0
    /\ \E va \in {ResolveValueAchieved(p)}, fs \in {ResolveFoundStructure(p)} :
       \E nec \in {ResolveNumEnergyCalcs(p, va, fs)} :
          /\ value_achieved' = va
          /\ found_structure' = fs
          /\ num_energy_calcs' = nec
          /\ sc_pc' = IF nec = Missing THEN "crashed" ELSE "constructed"
    /\ UNCHANGED <<endpoints, objective_function, num_promoted, size, num_parents,
                   power, org_budget, selection_params, calls, poolvars, offvars>>

\* the driver stops calling soon after the configured maximum is reached
CallCap ==
    IF num_energy_calcs.k = "some"
    THEN Min2(MaxCalls, num_energy_calcs.v + MaxOverrun)
    ELSE MaxOverrun

\* the comparison of update_calc_counter with > in place of >=
ReachedLate(counter, maximum) == counter > maximum

\* self.calc_counter >= self.num_energy_calcs
Reached(counter, maximum) == counter >= maximum

\* StoppingCriteria.update_calc_counter
UpdateCalcCounter ==
    /\ sc_pc = "constructed"
    /\ calls < CallCap
    /\ calls' = calls + 1
    /\ IF num_energy_calcs # None
       THEN /\ calc_counter' = calc_counter + 1
            /\ are_satisfied' =
                  IF Reached(calc_counter + 1, num_energy_calcs.v) THEN TRUE
                  ELSE are_satisfied
       ELSE UNCHANGED <<calc_counter, are_satisfied>>
    /\ UNCHANGED <<endpoints, objective_function, num_promoted, size, num_parents,
                   power, org_budget, selection_params, stopping_parameters, sc_pc, num_energy_calcs,
                   value_achieved, found_structure, poolvars, offvars>>

\* the value test of check_organism with < in place of <=
ValueReachedStrictly(value, target) == value < target

\* organism.value <= self.value_achieved
ValueReached(value, target) == value <= target

\* are_satisfied after check_organism that forgets what it was before
check_organism_forgets(satisfied, value, matches) ==
    \/ value_achieved # None /\ ValueReached(value, value_achieved.v)
    \/ found_structure # None /\ matches

\* are_satisfied after the two tests of check_organism
check_organism(satisfied, value, matches) ==
    IF value_achieved # None /\ ValueReached(value, value_achieved.v) THEN TRUE
    ELSE IF found_structure # None /\ matches THEN TRUE
    ELSE satisfied

\* StoppingCriteria.check_organism of an organism with the given value, whose
\* structure matches found_structure or does not
CheckOrganism(value, matches) ==
    /\ sc_pc = "constructed"
    /\ IF value_achieved = Missing
       THEN sc_pc' = "crashed" /\ UNCHANGED are_satisfied
       ELSE /\ are_satisfied' = check_organism(are_satisfied, value, matches)
            /\ UNCHANGED sc_pc
    /\ UNCHANGED <<endpoints, objective_function, num_promoted, size, num_parents,
                   power, org_budget, selection_params, stopping_parameters, num_energy_calcs,
                   value_achieved, found_structure, calc_counter, calls, poolvars,
                   offvars>>

\* ------------------------------------------------- OffspringGenerator
\* max_num_tries of make_offspring_organism
max_num_tries == 1000

RECURSIVE SumSeq(_)
SumSeq(s) == IF s = <<>> THEN 0 ELSE Head(s) + SumSeq(Tail(s))

\* the lists of variations of a search: their fractions, in units of
\* 1/FracUnit, sum to 1
VariationChoices ==
    {vs \in UNION {[1..n -> 0..FracUnit] : n \in 1..MaxVariations} : SumSeq(vs) = FracUnit}

\* random.random() in select_variation, in units of 1/(2 * FracUnit): the
\* ends and the midpoints of the cells the fractions cut out of [0, 1)
VariationDraws == 0..(2 * FracUnit - 1)

\* the for loop of select_variation from index i on: the index of the
\* variation returned, 0 when the loop ends without a return
RECURSIVE ScanVariations(_, _, _, _, _)
ScanVariations(vs, tried, rand, i, lower_bound) ==
    IF i > Len(vs) THEN 0
    ELSE IF /\ rand > lower_bound
            /\ rand <= lower_bound + 2 * vs[i]
            /\ i \notin Range(tried)
         THEN i
         ELSE ScanVariations(vs, tried, rand, i + 1, lower_bound + 2 * vs[i])

\* select_variation scanning as if no variation had been tried
select_variation_any(vs, tried, rand) == ScanVariations(vs, <<>>, rand, 1, 0)

\* one pass of the while loop of select_variation with the draw rand
select_variation(vs, tried, rand) == ScanVariations(vs, tried, rand, 1, 0)

\* the locals of a make_offspring_organism call that has just been entered
EnteredOffspring ==
    [tried_variations |-> <<>>, variation |-> 0, num_tries |-> 0,
     off_pc |-> "select_variation"]
\* no make_offspring_organism call has been made
NoTwinOff == [EnteredOffspring EXCEPT !.off_pc = "idle"]

\* make_offspring_organism is entered
MakeOffspringStart(vs) ==
    /\ off_pc \in {"idle", "returned"}
    /\ variations' = vs
    /\ tried_variations' = <<>>
    /\ variation' = 0
    /\ num_tries' = 0
    /\ developed' = FALSE
    /\ guard_consulted' = FALSE
    /\ redundant' = FALSE
    /\ off_pc' = "select_variation"
    /\ twin_off' = EnteredOffspring
    /\ UNCHANGED <<endpoints, objective_function, num_promoted, size, num_parents,
                   power, org_budget, selection_params, scvars, poolvars>>

\* select_variation draws once; it returns or draws again
SelectVariation ==
    /\ off_pc = "select_variation"
    /\ \E rand \in VariationDraws :
       \E v \in {select_variation(variations, tried_variations, rand)} :
       \E v2 \in {select_variation(variations, twin_off.tried_variations, rand)} :
          /\ IF v = 0
             THEN UNCHANGED <<variation, num_tries, off_pc>>
             ELSE variation' = v /\ num_tries' = 0 /\ off_pc' = "try"
          /\ twin_off' =
                IF v2 = 0 THEN twin_off
                ELSE [twin_off EXCEPT !.variation = v2, !.num_tries = 0, !.off_pc = "try"]
    /\ UNCHANGED <<endpoints, objective_function, num_promoted, size, num_parents,
                   power, org_budget, selection_params, scvars, poolvars, variations, tried_variations,
                   developed, guard_consulted, redundant>>

\* check_redundancy is evaluated only behind offspring is not None
Consulted(dev) == dev

\* the test of make_offspring_organism without the redundancy check
AcceptsDeveloped(dev, red) == dev

\* (offspring is not None) and (check_redundancy(...) is None)
Accepts(dev, red) == dev /\ ~red

\* tried_variations emptied every time a variation has used up its tries
ExhaustedClears(tried, v, vs) == <<>>

\* tried_variations after the variation has used up its tries
Exhausted(tried, v, vs) ==
    IF Len(Append(tried, v)) = Len(vs) THEN <<>> ELSE Append(tried, v)

\* one pass of the inner while loop of make_offspring_organism: do_variation,
\* develop (returns an organism or None), check_redundancy (finds the
\* offspring redundant or not)
Attempt(dev, red) ==
    /\ off_pc = "try"
    /\ developed' = dev
    /\ guard_consulted' = Consulted(dev)
    /\ redundant' = (Consulted(dev) /\ red)
    /\ IF Accepts(dev, red)
       THEN /\ off_pc' = "returned"
            /\ UNCHANGED <<num_tries, tried_variations>>
       ELSE /\ num_tries' = num_tries + 1
            /\ IF num_tries + 1 < max_num_tries
               THEN UNCHANGED <<off_pc, tried_variations>>
               ELSE /\ tried_variations' = Exhausted(tried_variations, variation, variations)
                    /\ off_pc' = "select_variation"
    /\ twin_off' =
          IF Accepts(dev, red)
          THEN [twin_off EXCEPT !.off_pc = "returned"]
          ELSE IF twin_off.num_tries + 1 < max_num_tries
          THEN [twin_off EXCEPT !.num_tries = @ + 1]
          ELSE [twin_off EXCEPT
                   !.num_tries = @ + 1,
                   !.tried_variations =
                       Exhausted(twin_off.tried_variations, twin_off.variation, variations),
                   !.off_pc = "select_variation"]
    /\ UNCHANGED <<endpoints, objective_function, num_promoted, size, num_parents,
                   power, org_budget, selection_params, scvars, poolvars, variations, variation>>

\* -------------------------------------------------- SelectionProbDist
\* the selection_params a user gives: the whole block None or 'default', or
\* a dictionary whose two keys are absent, None, 'default' or a number
GivenNumParents == {Given(n) : n \in 0..(PoolSize + 2)}
GivenPowers == {Given(n) : n \in 0..2}
NoSelection == [whole |-> "unset", num_parents |-> Absent, power |-> Absent]
SelectionParams ==
    {[NoSelection EXCEPT !.whole = w] : w \in {"None", "default"}}
    \cup [whole : {"dict"},
          num_parents : {Absent, KeyNone, KeyDefault} \cup GivenNumParents,
          power : {Absent, KeyNone, KeyDefault} \cup GivenPowers]

\* SelectionProbDist.default_power
default_power == 1

\* num_parents without the comparison with the pool size
ResolveNumParentsAsGiven(p, pool_size) ==
    IF p.whole # "dict" THEN pool_size
    ELSE IF p.num_parents.k = "absent" THEN pool_size
    ELSE IF Blank(p.num_parents) THEN pool_size
    ELSE p.num_parents.v

\* num_parents as SelectionProbDist.__init__ resolves it
ResolveNumParents(p, pool_size) ==
    IF p.whole # "dict" THEN pool_size
    ELSE IF p.num_parents.k = "absent" THEN pool_size
    ELSE IF Blank(p.num_parents) THEN pool_size
    ELSE IF p.num_parents.v > pool_size THEN pool_size
    ELSE p.num_parents.v

\* power as SelectionProbDist.__init__ resolves it
ResolvePower(p) ==
    IF p.whole # "dict" THEN default_power
    ELSE IF p.power.k = "absent" THEN default_power
    ELSE IF Blank(p.power) THEN default_power
    ELSE p.power.v

\* SelectionProbDist.__init__(selection_params, pool.size); the object becomes
\* pool.selection
ConstructSelection(p) ==
    /\ selection_params = NoSelection
    /\ selection_params' = p
    /\ num_parents' = ResolveNumParents(p, size)
    /\ power' = ResolvePower(p)
    /\ UNCHANGED <<endpoints, objective_function, num_promoted, size, org_budget,
                   scvars, offvars, poolvars>>

\* --------------------------------------------------------------- Init
\* no select_organisms call is in progress
NoTwinSel == [selected_orgs |-> <<>>, returned |-> FALSE]

NumPromotedChoices == {1, 2}
\* Pool.default_num_promoted
DefaultNumPromoted == 3
NumParentsChoices == {1, PoolSize}
Powers == {0, 1, 2}

\* the state after CompositionSpace, Pool, SelectionProbDist, IDGenerator and
\* InitialPopulation have been constructed
Init ==
    /\ endpoints \in EndpointChoices
    /\ objective_function = infer_objective_function(endpoints)
    /\ num_promoted \in IF objective_function = "epa" THEN NumPromotedChoices
                       ELSE {DefaultNumPromoted}
    /\ size = PoolSize
    /\ num_parents \in NumParentsChoices
    /\ power \in Powers
    /\ selection_params = NoSelection
    /\ id = 0
    /\ org_budget \in {MaxOrg, MaxSelOrg}
    /\ org = [i \in Ids |-> Unmade]
    /\ initial_population = <<>>
    /\ promotion_set = <<>>
    /\ queue = <<>>
    /\ num_adds = 0
    /\ pc = "new"
    /\ sel_n = 0
    /\ selected_orgs = <<>>
    /\ twin_sel = NoTwinSel
    /\ stopping_parameters = NoParameters
    /\ sc_pc = "none"
    /\ num_energy_calcs = Missing
    /\ value_achieved = Missing
    /\ found_structure = Missing
    /\ are_satisfied = FALSE
    /\ calc_counter = 0
    /\ calls = 0
    /\ variations = <<>>
    /\ tried_variations = <<>>
    /\ variation = 0
    /\ num_tries = 0
    /\ off_pc = "idle"
    /\ developed = FALSE
    /\ guard_consulted = FALSE
    /\ redundant = FALSE
    /\ twin_off = NoTwinOff

\* the driver is between two pool operations
Idle == pc \notin {"new", "select_organisms", "crashed", "quit"}

\* the locals of a finished select_organisms call are gone
ForgetSelection == sel_n' = 0 /\ selected_orgs' = <<>> /\ twin_sel' = NoTwinSel

\* the composition and energy per atom an organism of this search can have
Allowed(c, e) ==
    IF objective_function = "pd" THEN e \in Energies ELSE c = "A" /\ e \in Epas

\* ----------------------------------------------- InitialPopulation
\* InitialPopulation.add_organism of a freshly made organism
IPAddOrganism(c, e) ==
    /\ pc = "new"
    /\ id < org_budget
    /\ Allowed(c, e)
    /\ id' = id + 1
    /\ org' = [org EXCEPT ![id + 1] = [NewOrganism(c, e) EXCEPT !.is_active = TRUE]]
    /\ initial_population' = Append(initial_population, id + 1)
    /\ UNCHANGED <<cfgvars, promotion_set, queue, num_adds, pc, sel_n, selected_orgs, twin_sel>>

\* InitialPopulation.replace_organism of old_org, which need not be in the
\* initial population, by a freshly made organism
IPReplaceOrganism(old, c, e) ==
    /\ pc = "new"
    /\ id < org_budget
    /\ Allowed(c, e)
    /\ old \in 1..id
    /\ id' = id + 1
    /\ \E new \in {id + 1} :
       \E o1 \in {[org EXCEPT ![new] = [NewOrganism(c, e) EXCEPT !.is_active = TRUE]]} :
          IF old \in Range(initial_population)
          THEN /\ org' = [o1 EXCEPT ![old].is_active = FALSE]
               /\ initial_population' = Append(Remove(initial_population, old), new)
          ELSE /\ org' = o1
               /\ initial_population' = Append(initial_population, new)
    /\ UNCHANGED <<cfgvars, promotion_set, queue, num_adds, pc, sel_n, selected_orgs, twin_sel>>

\* ------------------------------------------- add_initial_population
\* the promotion set taken from the other end of the sorted list
EpaInitialPromotionSetLast(sorted) ==
    SubSeq(sorted, Len(sorted) - Min2(num_promoted, Len(sorted)) + 1, Len(sorted))

\* the promotion set of add_initial_population, epa: the first num_promoted
EpaInitialPromotionSet(sorted) ==
    SubSeq(sorted, 1, Min2(num_promoted, Len(sorted)))
\* the queue of add_initial_population, epa: the rest, each appended left
EpaInitialQueue(sorted) ==
    Reverse(SubSeq(sorted, Min2(num_promoted, Len(sorted)) + 1, Len(sorted)))

\* the promotion set of add_initial_population, pd
PdInitialPromotionSet(o, list) ==
    LET On(i) == OnHull(o[i].value) IN SelectSeq(list, On)
\* the queue of add_initial_population, pd
PdInitialQueue(o, list) ==
    LET Off(i) == ~OnHull(o[i].value) IN Reverse(SelectSeq(list, Off))

\* the tail of add_initial_population: compute_fitnesses,
\* compute_selection_probs and the sort of the list by decreasing fitness
FinishInitialPopulation(o, list, ps, q) ==
    /\ promotion_set' = ps
    /\ queue' = q
    /\ IF FitnessFaults(o, ps, q)
       THEN org' = o /\ initial_population' = list /\ pc' = "crashed"
       ELSE \E o2 \in {compute_fitnesses(o, ps, q)} :
               IF ProbsFaults(o2, ps, q)
               THEN org' = o2 /\ initial_population' = list /\ pc' = "crashed"
               ELSE \E o3 \in {compute_selection_probs(o2, ps, q)} :
                       /\ org' = o3
                       /\ initial_population' = SortByFitnessDesc(o3, list)
                       /\ pc' = "add_initial_population"

\* the except branch with the organisms placed before the run is ended
QuitAfterPlacing ==
    /\ pc' = "quit"
    /\ promotion_set' = initial_population
    /\ UNCHANGED <<org, initial_population, queue>>

\* the except branch of add_initial_population: compute_pd_values raised
\* before assigning any value; the messages are printed and quit() ends the run
Quit ==
    /\ pc' = "quit"
    /\ UNCHANGED <<org, initial_population, promotion_set, queue>>

\* Pool.add_initial_population
AddInitialPopulation ==
    /\ pc = "new"
    /\ IF objective_function = "epa"
       THEN \E o1 \in {[i \in Ids |-> IF i \in Range(initial_population)
                                      THEN [org[i] EXCEPT !.value = org[i].epa]
                                      ELSE org[i]]} :
            \E sorted \in {SortByValueAsc(o1, initial_population)} :
            \E ps \in {EpaInitialPromotionSet(sorted)}, q \in {EpaInitialQueue(sorted)} :
                FinishInitialPopulation(o1, sorted, ps, q)
       ELSE IF ~HullConstructible(org, initial_population)
            THEN Quit
            ELSE \E o1 \in {compute_pd_values(org, initial_population)} :
                 \E ps \in {PdInitialPromotionSet(o1, initial_population)},
                    q \in {PdInitialQueue(o1, initial_population)} :
                     FinishInitialPopulation(o1, initial_population, ps, q)
    /\ UNCHANGED <<cfgvars, id, num_adds, sel_n, selected_orgs, twin_sel>>

\* ------------------------------------------------------ add_organism
\* the epa branch of add_organism without the comparison with the worst
\* promoted organism
EpaAddQueued(o, ps, q, new) == <<ps, <<new>> \o q>>

\* the epa branch of add_organism with <= in place of <
EpaAddTies(o, ps, q, new) ==
    LET worst_organism == get_worst_in_promotion_set(o, ps)
    IN IF o[new].value <= o[worst_organism].value
       THEN <<Remove(Append(ps, new), worst_organism), <<worst_organism>> \o q>>
       ELSE <<ps, <<new>> \o q>>

\* the epa branch of add_organism that, when the newcomer is not promoted,
\* promotes the organism at the left end of the queue
EpaAddFromQueue(o, ps, q, new) ==
    LET worst_organism == get_worst_in_promotion_set(o, ps)
    IN IF o[new].value < o[worst_organism].value
       THEN <<Remove(Append(ps, new), worst_organism), <<worst_organism>> \o q>>
       ELSE IF q = <<>> THEN <<ps, <<new>>>>
       ELSE <<Append(ps, Head(q)), <<new>> \o Tail(q)>>

\* the epa branch of add_organism: <<promotion set, queue>> afterwards
EpaAdd(o, ps, q, new) ==
    LET worst_organism == get_worst_in_promotion_set(o, ps)
    IN IF o[new].value < o[worst_organism].value
       THEN <<Remove(Append(ps, new), worst_organism), <<worst_organism>> \o q>>
       ELSE <<ps, <<new>> \o q>>

\* the pd branch of add_organism after the values have been recomputed
PdAdd(o, ps, q, new) ==
    LET checked == check_promotion_set_pd(o, ps, q)
    IN IF NewcomerOnHull(o[new].value)
       THEN <<Append(checked[1], new), checked[2]>>
       ELSE <<checked[1], <<new>> \o checked[2]>>

\* the increment of num_adds by two
CountAddTwice(n) == n + 2

\* self.num_adds = self.num_adds + 1
CountAdd(n) == n + 1

\* Pool.add_organism of a freshly made organism
AddOrganism(c, e) ==
    /\ Idle \/ pc = "new"
    /\ id < org_budget
    /\ Allowed(c, e)
    /\ id' = id + 1
    /\ num_adds' = CountAdd(num_adds)
    /\ \E new \in {id + 1} :
       \E o1 \in {[org EXCEPT ![new] = [NewOrganism(c, e) EXCEPT !.is_active = TRUE]]} :
          IF objective_function = "epa"
          THEN \E o2 \in {[o1 EXCEPT ![new].value = e]} :
                  /\ org' = o2
                  /\ IF promotion_set = <<>>
                     THEN pc' = "crashed" /\ UNCHANGED <<promotion_set, queue>>
                     ELSE \E r \in {EpaAdd(o2, promotion_set, queue, new)} :
                             /\ promotion_set' = r[1]
                             /\ queue' = r[2]
                             /\ pc' = "add_organism"
          ELSE \E organisms_list \in {Append(to_list(promotion_set, queue), new)} :
                  IF ~HullConstructible(o1, organisms_list)
                  THEN /\ org' = o1
                       /\ pc' = "crashed"
                       /\ UNCHANGED <<promotion_set, queue>>
                  ELSE \E o2 \in {compute_pd_values(o1, organisms_list)} :
                       \E r \in {PdAdd(o2, promotion_set, queue, new)} :
                          /\ org' = o2
                          /\ promotion_set' = r[1]
                          /\ queue' = r[2]
                          /\ pc' = "add_organism"
    /\ ForgetSelection
    /\ UNCHANGED <<cfgvars, initial_population>>

\* -------------------------------------------------- replace_organism
\* the replacement of old_org by new_org without the removal of old_org
SwapKeeps(ps, q, old, new) ==
    IF old \in Range(ps)
    THEN <<Append(ps, new), q>>
    ELSE IF old \in Range(q)
    THEN LET k == IndexOf(q, old)
         IN <<ps, SubSeq(q, 1, k - 1) \o <<new>> \o SubSeq(q, k, Len(q))>>
    ELSE <<ps, q>>

\* the replacement with new_org put at the left end of the queue
SwapToLeftEnd(ps, q, old, new) ==
    IF old \in Range(ps)
    THEN <<Append(Remove(ps, old), new), q>>
    ELSE IF old \in Range(q)
    THEN <<ps, <<new>> \o Remove(q, old)>>
    ELSE <<ps, q>>

\* the replacement of old_org by new_org in its container
Swap(ps, q, old, new) ==
    IF old \in Range(ps)
    THEN <<Append(Remove(ps, old), new), q>>
    ELSE IF old \in Range(q)
    THEN LET k == IndexOf(q, old)
             queue_list == SubSeq(q, 1, k - 1) \o <<new>> \o SubSeq(q, k, Len(q))
         IN <<ps, Remove(queue_list, old)>>
    ELSE <<ps, q>>

\* the is_active flags of replace_organism with old_org left active
FlagsNewOnly(o, old, new) == [o EXCEPT ![new].is_active = TRUE]

\* the is_active flags of replace_organism
Flags(o, old, new) == [o EXCEPT ![old].is_active = FALSE, ![new].is_active = TRUE]

\* Pool.replace_organism of a pool member by a freshly made organism
ReplaceOrganism(old, c, e) ==
    /\ Idle
    /\ id < org_budget
    /\ Allowed(c, e)
    /\ old \in Range(to_list(promotion_set, queue))
    /\ id' = id + 1
    /\ \E new \in {id + 1} :
       \E o1 \in {[org EXCEPT ![new] = NewOrganism(c, e)]} :
       \E swapped \in {Swap(promotion_set, queue, old, new)} :
          IF objective_function = "epa"
          THEN /\ org' = Flags([o1 EXCEPT ![new].value = e], old, new)
               /\ promotion_set' = swapped[1]
               /\ queue' = swapped[2]
               /\ pc' = "replace_organism"
          ELSE \E organisms_list \in {Append(to_list(promotion_set, queue), new)} :
                  IF ~HullConstructible(o1, organisms_list)
                  THEN /\ org' = o1
                       /\ pc' = "crashed"
                       /\ UNCHANGED <<promotion_set, queue>>
                  ELSE \E o2 \in {Flags(compute_pd_values(o1, organisms_list), old, new)} :
                       \E checked \in {check_promotion_set_pd(o2, swapped[1], swapped[2])} :
                          /\ org' = o2
                          /\ promotion_set' = checked[1]
                          /\ queue' = checked[2]
                          /\ pc' = "replace_organism"
    /\ ForgetSelection
    /\ UNCHANGED <<cfgvars, initial_population, num_adds>>

\* ------------------------------- compute_fitnesses / selection_probs
\* Pool.compute_fitnesses
ComputeFitnesses ==
    /\ Idle
    /\ IF FitnessFaults(org, promotion_set, queue)
       THEN pc' = "crashed" /\ UNCHANGED org
       ELSE \E o2 \in {compute_fitnesses(org, promotion_set, queue)} :
               /\ org' = o2
               /\ pc' = "compute_fitnesses"
    /\ ForgetSelection
    /\ UNCHANGED <<cfgvars, id, initial_population, promotion_set, queue, num_adds>>

\* every organism of the pool has a fitness
FitnessesAssigned ==
    \A i \in Range(to_list(promotion_set, queue)) : ~IsNone(org[i].fitness)

\* Pool.compute_selection_probs
ComputeSelectionProbs ==
    /\ Idle
    /\ FitnessesAssigned
    /\ IF ProbsFaults(org, promotion_set, queue)
       THEN pc' = "crashed" /\ UNCHANGED org
       ELSE \E o2 \in {compute_selection_probs(org, promotion_set, queue)} :
               /\ org' = o2
               /\ pc' = "compute_selection_probs"
    /\ ForgetSelection
    /\ UNCHANGED <<cfgvars, id, initial_population, promotion_set, queue, num_adds>>

\* -------------------------------------------------- select_organisms
\* every organism of the pool has a selection probability and location
ProbsAssigned ==
    \A i \in Range(to_list(promotion_set, queue)) :
        ~IsNone(org[i].selection_prob) /\ ~IsNone(org[i].selection_loc)

\* the n's select_organisms is called with
SelectCounts == 0..MaxSelect

\* selected_orgs of a call that starts from the list the previous call left
KeptSelectedOrgs(previous) == previous

\* selected_orgs = []
NewSelectedOrgs(previous) == <<>>

\* Pool.select_organisms is entered
SelectStart(n) ==
    /\ Idle
    /\ ProbsAssigned
    /\ sel_n' = n
    /\ selected_orgs' = NewSelectedOrgs(selected_orgs)
    /\ twin_sel' = [selected_orgs |-> NewSelectedOrgs(<<>>), returned |-> FALSE]
    /\ pc' = "select_organisms"
    /\ UNCHANGED <<cfgvars, id, org, initial_population, promotion_set, queue, num_adds>>

\* one pass of the while loop of select_organisms, with the draw rand
SelectPass(rand) ==
    /\ \E r \in {Scan(org, to_list(promotion_set, queue), rand, selected_orgs, sel_n)} :
          /\ selected_orgs' = r[1]
          /\ pc' = IF r[2] THEN "selected" ELSE "select_organisms"
    /\ \E t \in {Scan(org, to_list(promotion_set, queue), rand,
                      twin_sel.selected_orgs, sel_n)} :
          twin_sel' = [selected_orgs |-> t[1], returned |-> t[2]]
    /\ UNCHANGED <<cfgvars, id, org, initial_population, promotion_set, queue,
                   num_adds, sel_n>>

\* the while loop of select_organisms draws and scans once more
SelectDraw ==
    /\ pc = "select_organisms"
    /\ \E rand \in Draws(org, to_list(promotion_set, queue)) : SelectPass(rand)

\* the operations that change the membership of the pool
NextPool ==
    \/ \E c \in Compositions, e \in AllEnergies : IPAddOrganism(c, e)
    \/ AddInitialPopulation
    \/ \E c \in Compositions, e \in AllEnergies : AddOrganism(c, e)
    \/ \E old \in Ids, c \in Compositions, e \in AllEnergies : ReplaceOrganism(old, c, e)

Next ==
    \/ \E c \in Compositions, e \in AllEnergies : IPAddOrganism(c, e)
    \/ AddInitialPopulation
    \/ \E c \in Compositions, e \in AllEnergies : AddOrganism(c, e)
    \/ \E old \in Ids, c \in Compositions, e \in AllEnergies : ReplaceOrganism(old, c, e)
    \/ ComputeFitnesses
    \/ ComputeSelectionProbs
    \/ \E n \in SelectCounts : SelectStart(n)
    \/ SelectDraw

\* the pool under add_initial_population, add_organism and replace_organism,
\* with the default selection power
PoolEndpoints == {<<"A">>, <<"A", "B">>}
InitPool == Init /\ endpoints \in PoolEndpoints /\ power = 1 /\ org_budget = MaxOrg
Spec == InitPool /\ [][NextPool]_vars

\* a fixed-composition search with every operation of the pool
InitSel == Init /\ endpoints = <<"A">> /\ num_promoted = 2 /\ org_budget = MaxSelOrg
SpecSel == InitSel /\ [][Next]_vars

\* the stopping criteria of a search, with the pool left as constructed
StopEndpoints == {<<"A">>, <<"A", "A">>, <<"A", "B">>, <<"A", "B", "A">>,
                  <<"A", "B", "A", "B">>}
OrganismValues == 0..2
InitStop ==
    /\ Init
    /\ endpoints \in StopEndpoints
    /\ num_promoted \in {1, DefaultNumPromoted}
    /\ num_parents = PoolSize
    /\ power = 1
    /\ org_budget = MaxOrg
NextStop ==
    \/ \E p \in StoppingParameters : Construct(p)
    \/ UpdateCalcCounter
    \/ \E value \in OrganismValues, matches \in BOOLEAN : CheckOrganism(value, matches)
SpecStop == InitStop /\ [][NextStop]_vars

\* the initial population and the pool it is handed to
NextIP ==
    \/ \E c \in Compositions, e \in AllEnergies : IPAddOrganism(c, e)
    \/ \E old \in Ids, c \in Compositions, e \in AllEnergies : IPReplaceOrganism(old, c, e)
    \/ AddInitialPopulation
    \/ \E c \in Compositions, e \in AllEnergies : AddOrganism(c, e)
    \/ \E old \in Ids, c \in Compositions, e \in AllEnergies : ReplaceOrganism(old, c, e)
InitIP == Init /\ endpoints \in PoolEndpoints /\ power = 1 /\ org_budget = MaxSelOrg
SpecIP == InitIP /\ [][NextIP]_vars

\* every composition space, followed by the construction of its stopping
\* criteria
InitSpace ==
    /\ Init
    /\ num_promoted \in {1, DefaultNumPromoted}
    /\ num_parents = PoolSize
    /\ power = 1
    /\ org_budget = MaxOrg
NextSpace == \E p \in StoppingParameters : Construct(p)
SpecSpace == InitSpace /\ [][NextSpace]_vars

\* the offspring generator, with the pool left as constructed
InitOff ==
    /\ Init
    /\ endpoints = <<"A">>
    /\ num_promoted = 1
    /\ num_parents = PoolSize
    /\ power = 1
    /\ org_budget = MaxOrg
NextOff ==
    \/ \E vs \in VariationChoices : MakeOffspringStart(vs)
    \/ SelectVariation
    \/ \E dev \in BOOLEAN, red \in BOOLEAN : Attempt(dev, red)
SpecOff == InitOff /\ [][NextOff]_vars

\* both kinds of search with every operation of the pool
InitAll == Init /\ endpoints \in PoolEndpoints /\ power = 1 /\ org_budget = MaxSelOrg
SpecAll == InitAll /\ [][Next]_vars

\* the construction of the selection distribution of a pool
InitDist == Init /\ endpoints \in PoolEndpoints /\ num_parents = 1 /\ power = 0
NextDist == \E p \in SelectionParams : ConstructSelection(p)
SpecDist == InitDist /\ [][NextDist]_vars

\* the runs of select_organisms on the pools of both kinds of search, and
\* the runs of make_offspring_organism the driver makes before it populates
\* the pool
NextRuns ==
    \/ off_pc = "idle" /\ Next
    \/ pc = "new" /\ id = 0 /\ NextOff
InitRuns == InitAll /\ num_parents = PoolSize
SpecRuns == InitRuns /\ [][NextRuns]_vars

\* select_organisms with fair draws: a pool organism that a draw can still
\* add to selected_orgs is eventually hit by one
SelectHits(i) == SelectDraw /\ i \in Range(selected_orgs') \ Range(selected_orgs)
SpecSelFair == SpecSel /\ \A i \in Ids : WF_vars(SelectHits(i))

\* select_variation with fair draws: a variation that a draw can return is
\* eventually returned by one
SelectReturns(v) == SelectVariation /\ variation' = v /\ off_pc' = "try"
SpecOffFair == SpecOff /\ \A v \in 1..MaxVariations : WF_vars(SelectReturns(v))

\* ================================================================ properties
Pool == Range(to_list(promotion_set, queue))
PoolReturned == pc \in {"add_initial_population", "add_organism", "replace_organism"}
\* no replace_organism call has happened: every organism made is still active
NoReplace == \A i \in 1..id : org[i].is_active
PromotedBelowQueue ==
    \A p \in Range(promotion_set), q \in Range(queue) : org[p].value <= org[q].value

\* C1: in pd mode, after add_initial_population, add_organism or
\* replace_organism has returned, every organism of the promotion set has a
\* value below 1e-9 and every organism of the queue a value of at least 1e-9.
\* add_organism promotes the newcomer only when its value equals 0.0, so a
\* newcomer with a value strictly between 0 and 1e-9 ends in the queue.
C1_PdThreshold ==
    (objective_function = "pd" /\ PoolReturned) =>
        /\ \A i \in Range(promotion_set) : org[i].value < Eps
        /\ \A i \in Range(queue) : org[i].value >= Eps

\* C2: in epa mode, after every add_organism call, the largest value of the
\* promotion set is at most the value of every organism of the queue.
\* replace_organism swaps in place without comparing values, so the order is
\* lost before the add and add_organism does not restore it.
C2_EpaPromotedBelowQueue ==
    (objective_function = "epa" /\ pc = "add_organism") => PromotedBelowQueue

\* C3 as stated: in epa mode, from a pool that holds no organisms, once
\* num_promoted or more add_organism calls were made the promotion set holds
\* num_promoted organisms, those of the lowest values. The first add_organism
\* on such a pool raises in get_worst_in_promotion_set.
C3_FromEmptyPool ==
    (objective_function = "epa" /\ initial_population = <<>> /\ num_adds >= num_promoted) =>
        /\ pc = "add_organism"
        /\ Len(promotion_set) = num_promoted
        /\ PromotedBelowQueue

\* C3 amended: in epa mode, after add_initial_population with at least
\* num_promoted organisms and any number of add_organism calls (and no
\* replace_organism), the promotion set holds exactly num_promoted organisms
\* and none of them has a larger value than an organism of the queue.
C3_TopKAfterInitialPopulation ==
    (/\ objective_function = "epa"
     /\ pc \in {"add_initial_population", "add_organism"}
     /\ Len(initial_population) >= num_promoted
     /\ NoReplace) =>
        /\ Len(promotion_set) = num_promoted
        /\ PromotedBelowQueue

\* two adds after an initial population of num_promoted organisms, the last
\* newcomer promoted and strictly better than a queued organism
C3_Witness ==
    /\ objective_function = "epa"
    /\ pc = "add_organism"
    /\ Len(initial_population) >= num_promoted
    /\ NoReplace
    /\ num_adds = 2
    /\ id \in Range(promotion_set)
    /\ \E q \in Range(queue) : org[id].value < org[q].value

\* C4: in both modes no organism is in the promotion set and in the queue, no
\* organism occurs twice in either, and to_list has as many elements as the
\* promotion set and the queue together.
C4_PoolIsPartitioned ==
    /\ Range(promotion_set) \cap Range(queue) = {}
    /\ Cardinality(Range(promotion_set)) = Len(promotion_set)
    /\ Cardinality(Range(queue)) = Len(queue)
    /\ Len(to_list(promotion_set, queue)) = Len(promotion_set) + Len(queue)
    /\ Cardinality(Pool) = Len(promotion_set) + Len(queue)

\* a pd pool after a replace_organism in which check_promotion_set_pd has
\* moved an organism from the queue behind a younger one of the promotion set
C4_Witness ==
    /\ objective_function = "pd"
    /\ pc = "replace_organism"
    /\ queue # <<>>
    /\ \E k \in 1..(Len(promotion_set) - 1) : promotion_set[k] > promotion_set[k + 1]

\* C5: when select_organisms(n) returns, the returned list has n elements,
\* they are pairwise distinct, and each is a member of the pool.
C5_SelectedDistinctMembers ==
    pc = "selected" =>
        /\ Len(selected_orgs) = sel_n
        /\ Cardinality(Range(selected_orgs)) = Len(selected_orgs)
        /\ Range(selected_orgs) \subseteq Pool

\* select_organisms(2) has returned from a pool of three
C5_Witness ==
    /\ pc = "selected"
    /\ sel_n = 2
    /\ Len(selected_orgs) = 2
    /\ Cardinality(Pool) = 3

\* the pool organisms with a positive selection probability
Selectable == {i \in Pool : org[i].selection_prob[1] > 0}

\* C6: under fair draws, select_organisms(n) returns whenever at least n
\* organisms of the pool have a positive selection probability, n = 0
\* included. The length of selected_orgs is compared with n only after an
\* append, so select_organisms(0) never returns.
C6_SelectReturns ==
    (pc = "select_organisms" /\ sel_n <= Cardinality(Selectable)) ~> (pc = "selected")

\* the end of the interval of organism i
IntervalEnd(i) == RAdd(org[i].selection_loc, org[i].selection_prob)
RECURSIVE SumProbs(_)
SumProbs(S) ==
    IF S = {} THEN Zero
    ELSE LET i == CHOOSE x \in S : TRUE
         IN RAdd(org[i].selection_prob, SumProbs(S \ {i}))

\* C7: after compute_selection_probs the selection probabilities of the pool
\* sum to 1, and the intervals [selection_loc, selection_loc + selection_prob)
\* do not overlap, start at 0, are contiguous, and are laid out in order of
\* non-decreasing fitness.
C7_IntervalsTileUnit ==
    (pc \in {"compute_selection_probs", "add_initial_population"} /\ Pool # {}) =>
        /\ SumProbs(Pool) = One
        /\ \A i \in Pool : RLeq(Zero, org[i].selection_prob)
        /\ \E i \in Pool : org[i].selection_loc = Zero
        /\ \A i \in Pool :
              \/ IntervalEnd(i) = One
              \/ \E j \in Pool \ {i} : org[j].selection_loc = IntervalEnd(i)
        /\ \A i, j \in Pool :
              i # j => \/ RLeq(IntervalEnd(i), org[j].selection_loc)
                       \/ RLeq(IntervalEnd(j), org[i].selection_loc)
        /\ \A i, j \in Pool :
              RLess(org[i].selection_loc, org[j].selection_loc) =>
                  RLeq(org[i].fitness, org[j].fitness)

\* compute_selection_probs has returned on a pool of three with three
\* different fitnesses and the quadratic power
C7_Witness ==
    /\ pc = "compute_selection_probs"
    /\ power = 2
    /\ Cardinality(Pool) = 3
    /\ Cardinality({org[i].fitness : i \in Pool}) = 3
    /\ \E i \in Pool : org[i].selection_prob = Rat(1, 5)

\* the reference subset of compute_fitnesses in the current state
Reference == Range(best_organisms(org, promotion_set, queue))

\* C8: after compute_fitnesses every pool organism has a fitness in [0, 1],
\* the lowest-valued organism of the reference subset has fitness 1, the
\* highest-valued one fitness 0, and every pool organism outside the
\* reference subset has fitness 0.
C8_FitnessRange ==
    (pc \in {"compute_fitnesses", "add_initial_population"}) =>
        /\ \A i \in Pool : RLeq(Zero, org[i].fitness) /\ RLeq(org[i].fitness, One)
        /\ \A i \in Reference :
              /\ (\A j \in Reference : org[i].value <= org[j].value) => org[i].fitness = One
              /\ (\A j \in Reference : org[i].value >= org[j].value) => org[i].fitness = Zero
        /\ \A i \in Pool \ Reference : org[i].fitness = Zero

\* compute_fitnesses has returned on a pool of three of which the two best
\* are the reference subset, and the organism outside has the worst value
C8_Witness ==
    /\ pc = "compute_fitnesses"
    /\ num_parents = 1
    /\ Cardinality(Pool) = 3
    /\ Cardinality(Reference) = 2
    /\ \E i \in Pool \ Reference : \A j \in Reference : org[j].value < org[i].value
    /\ \E i \in Reference : org[i].fitness = One

\* C9: after replace_organism(old, new) has returned, to_list contains new
\* and not old, old is inactive and new is active, in both modes and
\* wherever old was.
C9_Replaced ==
    [][(pc' = "replace_organism" /\ id' = id + 1) =>
          \A old \in Pool :
             ReplaceOrganism(old, org'[id'].composition, org'[id'].epa) =>
                 /\ id' \in Range(to_list(promotion_set', queue'))
                 /\ old \notin Range(to_list(promotion_set', queue'))
                 /\ ~org'[old].is_active
                 /\ org'[id'].is_active]_vars

\* a pd pool after replace_organism of a promoted organism: the new organism
\* sits in the queue and the old one, once on the hull, is inactive
C9_Witness ==
    /\ objective_function = "pd"
    /\ pc = "replace_organism"
    /\ id \in Range(queue)
    /\ org[id].is_active
    /\ \E old \in 1..(id - 1) :
          /\ ~org[old].is_active
          /\ org[old].value = 0
          /\ old \notin Pool

\* only the count criterion is active
CountOnly ==
    /\ sc_pc = "constructed"
    /\ num_energy_calcs.k = "some"
    /\ value_achieved = None
    /\ found_structure = None

\* C10: with only the count criterion active and a maximum N >= 1,
\* are_satisfied is true exactly when update_calc_counter has been called at
\* least N times; N is 800 for one endpoint and no explicit parameters; with
\* the count criterion unset update_calc_counter changes neither calc_counter
\* nor are_satisfied.
C10_CountCriterion ==
    /\ [](CountOnly /\ num_energy_calcs.v >= 1 =>
             (are_satisfied <=> calls >= num_energy_calcs.v))
    /\ []((sc_pc = "constructed" /\ Len(endpoints) = 1
             /\ stopping_parameters.whole \in {"None", "default"}) =>
             (CountOnly /\ num_energy_calcs.v = 800))
    /\ [][(UpdateCalcCounter /\ num_energy_calcs = None) =>
             UNCHANGED <<calc_counter, are_satisfied>>]_vars

\* the 800th call of update_calc_counter under the defaults of a search with
\* one endpoint has just satisfied the criteria
C10_Witness ==
    /\ CountOnly
    /\ Len(endpoints) = 1
    /\ stopping_parameters.whole = "None"
    /\ calls = 800
    /\ calc_counter = 800
    /\ are_satisfied

\* C11: across update_calc_counter and check_organism calls are_satisfied,
\* once true, stays true, and calc_counter never decreases.
C11_Monotonic ==
    [][(are_satisfied => are_satisfied') /\ calc_counter' >= calc_counter]_vars

\* the criteria were satisfied by the count, and update_calc_counter and
\* check_organism of organisms that meet no criterion went on afterwards
C11_Witness ==
    /\ sc_pc = "constructed"
    /\ are_satisfied
    /\ value_achieved.k = "some"
    /\ found_structure.k = "some"
    /\ num_energy_calcs.k = "some"
    /\ calc_counter > num_energy_calcs.v
    /\ calls = calc_counter

\* C12: check_organism sets are_satisfied when the value criterion is active
\* and the organism's value is at most value_achieved, or when the structure
\* criterion is active and the structure matches; otherwise it leaves
\* are_satisfied as it was; it never changes calc_counter. When the
\* constructor left value_achieved unassigned (pd search, value_achieved
\* given, num_energy_calcs given) check_organism raises before it looks at
\* found_structure.
C12_CheckOrganism ==
    [][\A value \in OrganismValues, matches \in BOOLEAN :
          CheckOrganism(value, matches) =>
              /\ are_satisfied' =
                    (\/ are_satisfied
                     \/ value_achieved.k = "some" /\ value <= value_achieved.v
                     \/ found_structure.k = "some" /\ matches)
              /\ calc_counter' = calc_counter]_vars

\* C13: after the construction of StoppingCriteria from a dictionary: a
\* given value_achieved (epa search) or found_structure without a given
\* num_energy_calcs leaves num_energy_calcs None; with neither of the two
\* active and no num_energy_calcs given it is the default of the number of
\* endpoints (800, 1000, 3000, 6000); a given num_energy_calcs is kept.
\* In a pd search with value_achieved given and no num_energy_calcs given
\* the constructor raises on the unassigned value_achieved instead.
C13_CountResolution ==
    LET p == stopping_parameters
        user_value == p.value_achieved.k = "given" /\ objective_function = "epa"
        user_structure == p.found_structure.k = "given"
        user_calcs == p.num_energy_calcs.k = "given"
        arity_default == CASE Len(endpoints) = 1 -> 800
                           [] Len(endpoints) = 2 -> 1000
                           [] Len(endpoints) = 3 -> 3000
                           [] OTHER -> 6000
    IN (sc_pc # "none" /\ Len(endpoints) <= 4) =>
          /\ ((user_value \/ user_structure) /\ ~user_calcs) =>
                 (sc_pc = "constructed" /\ num_energy_calcs = None)
          /\ (~user_value /\ ~user_structure /\ ~user_calcs) =>
                 (sc_pc = "constructed" /\ num_energy_calcs = Some(arity_default))
          /\ user_calcs =>
                 (sc_pc = "constructed" /\ num_energy_calcs = Some(p.num_energy_calcs.v))

\* C14: when make_offspring_organism returns, the offspring is a non-null
\* result of developer.develop that check_redundancy did not find redundant;
\* it returns at the first attempt of which both are true, and
\* check_redundancy is not called in an attempt whose development returned
\* None.
C14_ReturnsFirstValidOffspring ==
    /\ [](off_pc = "returned" => (developed /\ guard_consulted /\ ~redundant))
    /\ [](guard_consulted => developed)
    /\ [][(off_pc = "try" /\ developed' /\ guard_consulted' /\ ~redundant')
             => off_pc' = "returned"]_vars

\* the second variation returned an offspring after the first variation had
\* used up its tries
C14_Witness ==
    /\ off_pc = "returned"
    /\ tried_variations = <<1>>
    /\ variation = 2
    /\ num_tries > 0
    /\ developed /\ guard_consulted /\ ~redundant

\* C15: infer_objective_function gives epa for one endpoint, pd for two or
\* more endpoints of which some pair differs in composition, and epa for two
\* or more endpoints that are all equal in composition.
C15_InferObjective ==
    LET n == Len(endpoints)
        differ == \E i \in 1..n, j \in 1..n : endpoints[i] # endpoints[j]
    IN /\ n = 1 => objective_function = "epa"
       /\ (n >= 2 /\ differ) => objective_function = "pd"
       /\ (n >= 2 /\ ~differ) => objective_function = "epa"

\* a pd space of four endpoints of which only the last differs from the first
C15_Witness ==
    /\ endpoints = <<"A", "A", "A", "B">>
    /\ objective_function = "pd"
    /\ sc_pc = "constructed"

\* C16: InitialPopulation.replace_organism(old, new) with no organism of
\* old's id in the initial population signals an error and does not append
\* new. The loop over the initial population finds nothing to remove and the
\* method goes on to append and activate new, exactly as add_organism does.
C16_IPReplaceAbsent ==
    [][(pc = "new" /\ id' = id + 1) =>
          \A old \in (1..id) \ Range(initial_population) :
             IPReplaceOrganism(old, org'[id'].composition, org'[id'].epa) =>
                 /\ pc' = "crashed"
                 /\ id' \notin Range(initial_population')]_vars

\* the organisms that are members: those of the pool once it is populated,
\* those of the initial population before
Member(i) ==
    IF Pool # {} THEN i \in Pool ELSE i \in Range(initial_population)

C18_BestInPool ==
    (PoolReturned /\ Pool # {}) =>
        \E b \in {get_best_in_pool(org, promotion_set)} :
            /\ b \in Pool
            /\ \A i \in Pool : org[b].value <= org[i].value

\* C19: after any sequence of add_initial_population, add_organism and
\* replace_organism calls that leaves the pool non-empty, the queue being
\* empty included, get_worst_in_pool returns an organism whose value is the
\* greatest over the promotion set and the queue together. The method reads
\* queue[0] first and looks in the queue only.
C19_WorstInPool ==
    (PoolReturned /\ Pool # {}) =>
        \E w \in {get_worst_in_pool(org, queue)} :
            /\ w \in Pool
            /\ \A i \in Pool : org[i].value <= org[w].value

\* C19 with a queue that is not empty: the greatest value can still be in the
\* promotion set after replace_organism
C19_WorstInPoolQueued ==
    (PoolReturned /\ queue # <<>>) =>
        \E w \in {get_worst_in_pool(org, queue)} :
            \A i \in Pool : org[i].value <= org[w].value

\* C20: when the hull cannot be constructed from the initial population in
\* pd mode, add_initial_population ends the run: no organism is in the
\* promotion set or the queue, no value, fitness or selection probability has
\* been assigned, and no later pool operation runs.
C20_HullFailureQuits ==
    /\ [][(pc = "new" /\ pc' # "new" /\ objective_function = "pd"
            /\ ~HullConstructible(org, initial_population)
            /\ AddInitialPopulation) =>
              (pc' = "quit" /\ org' = org /\ num_adds' = 0)]_vars
    /\ [](pc = "quit" =>
            /\ promotion_set = <<>>
            /\ queue = <<>>
            /\ \A i \in Range(initial_population) :
                  org[i] = [NewOrganism(org[i].composition, org[i].epa)
                               EXCEPT !.is_active = TRUE])
    /\ [][pc = "quit" => pc' = "quit"]_vars

\* the run was ended with organisms in the initial population
C20_Witness ==
    /\ pc = "quit"
    /\ objective_function = "pd"
    /\ Len(initial_population) >= 2
    /\ ~HullConstructible(org, initial_population)

\* the organisms that replace_organism calls have retired or failed to admit
Retired == {i \in 1..id : ~org[i].is_active}

\* C21: num_adds is the number of add_organism calls made so far, that is
\* the organisms made less those of the initial population and less one per
\* replace_organism call; a call of add_organism raises it by exactly 1,
\* add_initial_population, replace_organism, compute_fitnesses,
\* compute_selection_probs and select_organisms leave it as it is, and it
\* never decreases.
C21_NumAdds ==
    /\ [](num_adds = id - Len(initial_population) - Cardinality(Retired))
    /\ [][pc' = "add_organism" => num_adds' = num_adds + 1]_vars
    /\ [][pc' \in {"add_initial_population", "replace_organism", "compute_fitnesses",
                   "compute_selection_probs", "select_organisms", "selected"}
             => num_adds' = num_adds]_vars
    /\ [][num_adds' >= num_adds]_vars

\* an add_organism call after add_initial_population, followed by
\* compute_fitnesses, compute_selection_probs and a selection that returned
C21_Witness ==
    /\ pc = "selected"
    /\ num_adds = 1
    /\ Len(initial_population) = 2
    /\ selected_orgs # <<>>

\* C22: after SelectionProbDist is constructed, num_parents is at most the
\* pool size: a given number above the pool size is replaced by the pool
\* size, a missing, None or 'default' num_parents becomes the pool size, and
\* a given number up to the pool size is kept; power is 1 when it is missing,
\* None or 'default'.
C22_SelectionResolved ==
    selection_params # NoSelection =>
        /\ num_parents <= size
        /\ (selection_params.whole = "dict" /\ selection_params.num_parents.k = "given")
              => num_parents = IF selection_params.num_parents.v > size THEN size
                               ELSE selection_params.num_parents.v
        /\ (selection_params.whole # "dict"
               \/ selection_params.num_parents.k \in {"absent", "None", "default"})
              => num_parents = size
        /\ (selection_params.whole # "dict"
               \/ selection_params.power.k \in {"absent", "None", "default"})
              => power = 1

\* a num_parents above the pool size was given and power left out
C22_Witness ==
    /\ selection_params.whole = "dict"
    /\ selection_params.num_parents.k = "given"
    /\ selection_params.num_parents.v > size
    /\ selection_params.power.k = "absent"
    /\ num_parents = size
    /\ power = 1

C23_WitnessOffspring ==
    /\ off_pc = "returned"
    /\ twin_off.off_pc = "returned"
    /\ twin_off.tried_variations # <<>>

\* the n organisms of least value are among those of the list
LowestOf(list, n) ==
    /\ Len(list) = n
    /\ Cardinality(Range(list)) = n
    /\ Range(list) \subseteq Pool
    /\ \A i \in Range(list), j \in Pool \ Range(list) : org[i].value <= org[j].value

\* C24: get_n_best_organisms(n) returns the n organisms of least value when
\* the pool holds at least n organisms and every organism of the pool when it
\* holds fewer, so that with num_parents >= size the reference subset of
\* compute_fitnesses is the whole pool. The list is cut with
\* pool_list[len(pool_list) - n:], and a negative start counts from the end
\* of the list: a pool of m < n < 2m organisms yields its n - m best only.
C24_NBest ==
    Pool # {} =>
        /\ \A n \in 1..(PoolSize + 1) :
              LowestOf(get_n_best_organisms(org, promotion_set, queue, n),
                       Min2(n, Cardinality(Pool)))
        /\ num_parents >= size =>
              Range(best_organisms(org, promotion_set, queue)) = Pool

\* every organism of the pool has its distance from the hull of the pool
ValuesOverMembers ==
    /\ HullConstructible(org, to_list(promotion_set, queue))
    /\ \A i \in Pool :
          org[i].value = get_e_above_hull(org, to_list(promotion_set, queue), i)

\* C25: in pd mode, when add_organism or replace_organism returns, the value
\* of every organism of the pool is its distance from the hull of the
\* organisms that are in the pool at that moment. replace_organism computes
\* the values over the pool and new_org while old_org is still in the pool.
C25_PdValuesOverMembers ==
    (objective_function = "pd" /\ pc \in {"add_organism", "replace_organism"}) =>
        ValuesOverMembers

\* C25 for add_organism alone, after whatever calls came before
C25_PdValuesAfterAdd ==
    (objective_function = "pd" /\ pc = "add_organism") => ValuesOverMembers

\* C26: add_initial_population in epa mode on N organisms gives every
\* organism its epa as value, puts min(num_promoted, N) organisms of least
\* value into the promotion set and the others into the queue: no promoted
\* organism has a larger value than a queued one.
C26_EpaInitialPlacement ==
    [][(pc = "new" /\ pc' # "new" /\ objective_function = "epa"
        /\ AddInitialPopulation) =>
          /\ Len(promotion_set') = Min2(num_promoted, Len(initial_population))
          /\ Len(queue') = Len(initial_population) - Len(promotion_set')
          /\ Range(promotion_set') \cup Range(queue') = Range(initial_population)
          /\ Range(promotion_set') \cap Range(queue') = {}
          /\ \A i \in Range(initial_population) : org'[i].value = org[i].epa
          /\ \A p \in Range(promotion_set'), q \in Range(queue') :
                org'[p].value <= org'[q].value]_vars

\* add_initial_population has returned with two queued organisms, one of
\* them strictly worse than a promoted one
C26_Witness ==
    /\ objective_function = "epa"
    /\ pc = "add_initial_population"
    /\ num_adds = 0
    /\ NoReplace
    /\ Len(promotion_set) = num_promoted
    /\ Len(queue) >= 2
    /\ \E p \in Range(promotion_set), q \in Range(queue) : org[p].value < org[q].value

\* C27: after add_initial_population in epa mode the queue is ordered by
\* value with the organism of the largest value at the end opposite to the
\* one where add_organism inserts; add_organism inserts at the left end
\* (index 1). The organisms are appended left in order of increasing value,
\* so the largest value is at the left end, where newcomers enter.
C27_WorstAtEvictionEnd ==
    (objective_function = "epa" /\ pc = "add_initial_population") =>
        \A k \in 1..(Len(queue) - 1) : org[queue[k]].value <= org[queue[k + 1]].value

\* what the queue looks like instead: the largest value at the left end
C27_WorstAtInsertionEnd ==
    (objective_function = "epa" /\ pc = "add_initial_population") =>
        \A k \in 1..(Len(queue) - 1) : org[queue[k]].value >= org[queue[k + 1]].value

\* the largest value of the promotion set
LargestPromoted == CHOOSE v \in {org[p].value : p \in Range(promotion_set)} :
                       \A p \in Range(promotion_set) : org[p].value <= v

\* C28: add_organism in epa mode on a pool whose promotion set is not empty.
\* A newcomer with a value strictly below the largest value of the promotion
\* set enters the promotion set and one organism of that largest value moves
\* to the left end of the queue; any other newcomer, one that ties included,
\* goes to the left end of the queue and the promotion set stays as it is.
\* Either way the promotion set keeps its size, the queue grows by one and
\* the organisms that were in the queue keep their order.
C28_EpaAdd ==
    [][(objective_function = "epa" /\ pc' = "add_organism" /\ id' = id + 1
        /\ promotion_set # <<>>) =>
          /\ org'[id'].value = org'[id'].epa
          /\ IF org'[id'].value < LargestPromoted
             THEN \E x \in Range(promotion_set) :
                     /\ org[x].value = LargestPromoted
                     /\ Range(promotion_set') = (Range(promotion_set) \ {x}) \cup {id'}
                     /\ queue' = <<x>> \o queue
             ELSE /\ promotion_set' = promotion_set
                  /\ queue' = <<id'>> \o queue
          /\ Len(promotion_set') = Len(promotion_set)
          /\ Len(queue') = Len(queue) + 1
          /\ Tail(queue') = queue]_vars

\* a newcomer has displaced the worst promoted organism, which now sits at
\* the left end of a queue of three
C28_Witness ==
    /\ objective_function = "epa"
    /\ pc = "add_organism"
    /\ id \in Range(promotion_set)
    /\ Len(queue) = 3
    /\ org[id].value < org[queue[1]].value
    /\ \A p \in Range(promotion_set) : org[p].value <= org[queue[1]].value

\* C29: replace_organism(old, new) in epa mode puts new into the container
\* of old. When old was at index i of the queue, new is at index i, every
\* other organism of the queue is where it was and the promotion set is as
\* it was; when old was in the promotion set, the queue is as it was and the
\* promotion set holds new in place of old and the same others.
C29_EpaReplaceInPlace ==
    [][(objective_function = "epa" /\ pc' = "replace_organism" /\ id' = id + 1) =>
          \A old \in Pool :
             ReplaceOrganism(old, org'[id'].composition, org'[id'].epa) =>
                 IF old \in Range(queue)
                 THEN /\ promotion_set' = promotion_set
                      /\ Len(queue') = Len(queue)
                      /\ \A k \in 1..Len(queue) :
                            queue'[k] = IF queue[k] = old THEN id' ELSE queue[k]
                 ELSE /\ queue' = queue
                      /\ Len(promotion_set') = Len(promotion_set)
                      /\ Range(promotion_set') =
                            (Range(promotion_set) \ {old}) \cup {id'}]_vars

\* the new organism has taken the place of the last organism of a queue of
\* two
C29_Witness ==
    /\ objective_function = "epa"
    /\ pc = "replace_organism"
    /\ Len(queue) = 2
    /\ queue[2] = id
    /\ org[id].is_active
    /\ \E old \in 1..(id - 1) : ~org[old].is_active /\ old \notin Pool

\* the organisms compute_fitnesses measures the others against: the last
\* num_parents + 1 of the pool in order of decreasing value when num_parents
\* is below the pool size, the last size of them otherwise
ReferenceSubset(o, ps, q) ==
    get_n_best_organisms(o, ps, q, IF num_parents < size THEN num_parents + 1 ELSE size)

\* the subset is not empty and its organisms share one value
OneValue(o, subset) ==
    /\ subset # <<>>
    /\ \A i \in Range(subset), j \in Range(subset) : o[i].value = o[j].value

\* C30: compute_fitnesses raises on the division by best_value - worst_value
\* and assigns no fitness whenever the organisms of its reference subset
\* share one value, a subset of a single organism included; this holds for a
\* call of its own and for the call add_initial_population makes.
C30_DivisionByZero ==
    /\ [][(ComputeFitnesses /\ OneValue(org, ReferenceSubset(org, promotion_set, queue)))
             => (pc' = "crashed" /\ org' = org)]_vars
    /\ [][(pc = "new" /\ pc' # "new" /\ AddInitialPopulation
            /\ OneValue(org', ReferenceSubset(org', promotion_set', queue')))
             => /\ pc' = "crashed"
                /\ \A i \in Range(initial_population) : IsNone(org'[i].fitness)]_vars

\* compute_fitnesses has raised on a pool of two organisms of one value, one
\* of which had a fitness from an earlier call
C30_Witness ==
    /\ pc = "crashed"
    /\ Cardinality(Pool) = 2
    /\ OneValue(org, ReferenceSubset(org, promotion_set, queue))
    /\ Len(ReferenceSubset(org, promotion_set, queue)) = 2
    /\ \E i \in Pool : ~IsNone(org[i].fitness)
    /\ \E i \in Pool : IsNone(org[i].fitness)

\* C31: in make_offspring_organism a variation is attempted at most
\* max_num_tries times in a row; when it has failed that often it joins
\* tried_variations and is not selected while it is there; tried_variations
\* is emptied exactly when the variation that joins it is the last of the
\* list, and changes at no other moment of a call.
C31_TriedVariations ==
    /\ [](num_tries <= max_num_tries)
    /\ [](off_pc = "try" =>
             (num_tries < max_num_tries /\ variation \notin Range(tried_variations)))
    /\ [](Cardinality(Range(tried_variations)) = Len(tried_variations)
             /\ (variations # <<>> => Len(tried_variations) < Len(variations)))
    /\ [][(off_pc = "try" /\ off_pc' = "select_variation") =>
             /\ num_tries' = max_num_tries
             /\ tried_variations' =
                   IF Range(tried_variations) \cup {variation} = 1..Len(variations)
                   THEN <<>>
                   ELSE Append(tried_variations, variation)]_vars
    /\ [][tried_variations' # tried_variations =>
             (off_pc # "select_variation" /\ off_pc' = "select_variation")]_vars

\* the second of two variations has just used up its tries after the first
\* had, and tried_variations is empty again
C31_Witness ==
    /\ off_pc = "select_variation"
    /\ Len(variations) = 2
    /\ num_tries = max_num_tries
    /\ tried_variations = <<>>

\* lower_bound when the for loop of select_variation reaches index i: the
\* fractions of the variations before i, in the units of VariationDraws
LowerBound(vs, i) == 2 * SumSeq(SubSeq(vs, 1, i - 1))

C33_SelectVariationReturns ==
    (off_pc = "select_variation" /\ Range(tried_variations) # 1..Len(variations))
        ~> (off_pc = "try")

\* select_variation does return when a variation of positive fraction is
\* not in tried_variations
C33_ReturnsPositiveFraction ==
    (/\ off_pc = "select_variation"
     /\ \E i \in 1..Len(variations) :
           i \notin Range(tried_variations) /\ variations[i] > 0)
        ~> (off_pc = "try")

\* select_variation is entered with the only variation of positive fraction
\* in tried_variations
C33_OnlyZeroFractionLeft ==
    /\ off_pc = "select_variation"
    /\ variations = <<FracUnit, 0>>
    /\ tried_variations = <<1>>

\* the selection probabilities of the pool are those compute_selection_probs
\* assigns for the fitnesses the organisms have now
ProbsCurrent ==
    /\ FitnessesAssigned
    /\ ~ProbsFaults(org, promotion_set, queue)
    /\ org = compute_selection_probs(org, promotion_set, queue)

\* an organism of fitness 0 has selection probability 0 after
\* compute_selection_probs, and select_organisms does not return it
ZeroFitnessUnselected ==
    /\ (pc \in {"compute_selection_probs", "add_initial_population"} =>
           \A i \in Pool : org[i].fitness = Zero => org[i].selection_prob = Zero)
    /\ ((pc = "selected" /\ ProbsCurrent) =>
           \A i \in Range(selected_orgs) : org[i].fitness # Zero)

\* C34: for every selection power >= 0, power = 0 included, an organism
\* whose fitness is 0 after compute_fitnesses has selection probability 0
\* after compute_selection_probs and is never returned by select_organisms.
\* math.pow(0, 0) is 1, so with power = 0 every organism of the pool has the
\* same positive probability.
C34_ZeroFitnessNeverSelected == ZeroFitnessUnselected

\* the same for the positive powers only
C34_PositivePower == power > 0 => ZeroFitnessUnselected

\* with power = 0, select_organisms has returned an organism of fitness 0
C34_ZeroFitnessSelected ==
    /\ pc = "selected"
    /\ power = 0
    /\ ProbsCurrent
    /\ \E i \in Range(selected_orgs) : org[i].fitness = Zero

\* check_promotion_set_pd on the promotion set ps and the queue q, with the
\* values of o, loses no organism and holds none twice
Reconciled(o, ps, q) ==
    LET r == check_promotion_set_pd(o, ps, q)
    IN /\ Range(r[1]) \cup Range(r[2]) = Range(ps) \cup Range(q)
       /\ Range(r[1]) \cap Range(r[2]) = {}
       /\ Cardinality(Range(r[1])) = Len(r[1])
       /\ Cardinality(Range(r[2])) = Len(r[2])
       /\ Len(r[1]) + Len(r[2]) = Len(ps) + Len(q)

\* C35: an add_organism that returns makes the set of pool members grow by
\* exactly the added organism; a replace_organism that returns changes it by
\* exactly removing old_org and inserting new_org; check_promotion_set_pd, on
\* the lists and values these calls hand it, only moves organisms between
\* the promotion set and the queue, losing and duplicating none.
C35_MembershipConserved ==
    /\ [][(pc' = "add_organism" /\ id' = id + 1) =>
             /\ id' \notin Pool
             /\ Pool' = Pool \cup {id'}
             /\ Len(promotion_set') + Len(queue') = Len(promotion_set) + Len(queue) + 1
             /\ objective_function = "pd" => Reconciled(org', promotion_set, queue)]_vars
    /\ [][(pc' = "replace_organism" /\ id' = id + 1) =>
             \E old \in Pool :
                /\ ~org'[old].is_active
                /\ id' \notin Pool
                /\ Pool' = (Pool \ {old}) \cup {id'}
                /\ Len(promotion_set') + Len(queue') = Len(promotion_set) + Len(queue)
                /\ objective_function = "pd" =>
                      \E swapped \in {Swap(promotion_set, queue, old, id')} :
                         Reconciled(org', swapped[1], swapped[2])]_vars

\* a pd pool of PoolSize + 1 after an add_organism in which check_promotion_set_pd
\* demoted an organism to the left end of the queue: the newcomer is
\* promoted, and in front of the queue stands an organism that add_initial_population
\* had promoted
C35_Witness ==
    /\ objective_function = "pd"
    /\ pc = "add_organism"
    /\ num_adds = 1
    /\ Cardinality(Pool) = PoolSize + 1
    /\ id \in Range(promotion_set)
    /\ Len(queue) >= 2
    /\ queue[1] \in Range(initial_population)
    /\ queue[1] > queue[2]
    /\ org[queue[1]].value > 0

\* C36: in epa mode no add_organism or replace_organism moves an organism
\* of the queue into the promotion set: apart from add_initial_population,
\* the only organism that enters the promotion set in a step is the one the
\* step has made, as the newcomer of add_organism or as the new_org of a
\* replace_organism whose old_org was promoted.
C36_NoPromotionFromQueue ==
    /\ [][(objective_function = "epa" /\ (pc # "new" \/ num_adds' # num_adds)) =>
             /\ Range(promotion_set') \ Range(promotion_set) \subseteq {id'} \ (1..id)
             /\ Range(queue) \cap Range(promotion_set') = {}]_vars
    /\ [][(/\ objective_function = "epa"
            /\ pc' = "replace_organism"
            /\ id' = id + 1
            /\ id' \in Range(promotion_set')) =>
             \E old \in Range(promotion_set) :
                ~org'[old].is_active /\ old \notin Range(promotion_set')]_vars

\* an epa pool after replace_organism of a promoted organism: new_org is in
\* the promotion set although an organism of the queue has a lower value
C36_Witness ==
    /\ objective_function = "epa"
    /\ pc = "replace_organism"
    /\ id \in Range(promotion_set)
    /\ \E q \in Range(queue) : org[q].value < org[id].value

\* C37: in epa mode, when StoppingCriteria has been constructed, whatever
\* the parameters (absent, None, 'default' or given, or no dictionary at
\* all), each of num_energy_calcs, value_achieved and found_structure has
\* been assigned and at least one of them is not None.
C37_SomeCriterionActive ==
    (sc_pc = "constructed" /\ objective_function = "epa") =>
        /\ Missing \notin {num_energy_calcs, value_achieved, found_structure}
        /\ ~(/\ num_energy_calcs = None
              /\ value_achieved = None
              /\ found_structure = None)

\* an epa search constructed from a dictionary whose num_energy_calcs is
\* None and whose value_achieved is 'default': the count criterion is active
\* with the default of the composition space
C37_Witness ==
    /\ sc_pc = "constructed"
    /\ objective_function = "epa"
    /\ stopping_parameters.whole = "dict"
    /\ stopping_parameters.num_energy_calcs = KeyNone
    /\ stopping_parameters.value_achieved = KeyDefault
    /\ stopping_parameters.found_structure = Absent
    /\ num_energy_calcs = default_num_energy_calcs
    /\ value_achieved = None
    /\ found_structure = None

\* StoppingCriteria.__init__ has run on a dictionary with a value_achieved
\* of the user's, in a pd search whose number of endpoints has a default
PdValueGiven ==
    /\ sc_pc # "none"
    /\ objective_function = "pd"
    /\ Len(endpoints) <= 4
    /\ stopping_parameters.whole = "dict"
    /\ stopping_parameters.value_achieved.k = "given"

\* C38: in pd mode a value_achieved given by the user is ignored: the
\* construction completes with value_achieved None and with num_energy_calcs
\* resolved as if value_achieved had not been given, and check_organism
\* never sets are_satisfied because of the value of an organism. No branch
\* of the constructor assigns value_achieved in this case, so the attribute
\* does not exist: the resolution of num_energy_calcs and check_organism
\* raise when they read it.
C38_PdValueIgnored ==
    /\ [](PdValueGiven =>
             /\ sc_pc = "constructed"
             /\ value_achieved = None
             /\ num_energy_calcs =
                   ResolveNumEnergyCalcs([stopping_parameters EXCEPT !.value_achieved = Absent],
                                         None, found_structure))
    /\ [][(PdValueGiven /\ calls' = calls /\ found_structure = None)
             => are_satisfied' = are_satisfied]_vars

\* what the constructor does in that case: value_achieved is left
\* unassigned, and the construction completes only when num_energy_calcs was
\* given, to a given found_structure and the given num_energy_calcs
C38_PdValueUnassigned ==
    PdValueGiven =>
        /\ value_achieved = Missing
        /\ found_structure = ResolveFoundStructure(stopping_parameters)
        /\ IF stopping_parameters.num_energy_calcs.k = "given"
           THEN num_energy_calcs = Some(stopping_parameters.num_energy_calcs.v)
           ELSE sc_pc = "crashed" /\ num_energy_calcs = Missing

\* the construction has raised on the unassigned value_achieved
C38_ConstructionRaises ==
    /\ PdValueGiven
    /\ sc_pc = "crashed"
    /\ stopping_parameters.num_energy_calcs = Absent
    /\ calc_counter = 0

\* check_organism has raised on the unassigned value_achieved
C38_CheckOrganismRaises ==
    /\ PdValueGiven
    /\ sc_pc = "crashed"
    /\ stopping_parameters.num_energy_calcs.k = "given"

====
